---- MODULE Spec2Model ----
(***************************************************************************)
(* Model of src/app/api/status/route.ts: the status resolver GET, which    *)
(* probes five upstream endpoints in priority order, parses the first      *)
(* usable payload and answers with a success or a failure envelope, its    *)
(* transport helper fetchWithTimeout, and the pre-flight handler OPTIONS.  *)
(*                                                                         *)
(* JavaScript values are tagged records.  A string is a tuple of           *)
(* one-character strings.  A finite number is m * 10^e with m and e        *)
(* integers, a decimal of at most MaxDigits significant digits.            *)
(***************************************************************************)
EXTENDS Integers, Sequences, FiniteSets, TLC

VARIABLES
    pc,         \* "idle", or where the running GET is suspended: "fetch", "body"
    idx,        \* the candidate of the current loop iteration (1-based)
    locutor, programa, unicos, status, lastError,   \* GET's locals (lines 62-67)
    timers,     \* the candidates whose setTimeout timer is armed
    requests,   \* the candidates requested by the current invocation, in order
    upstream,   \* what each endpoint does when requested, once observed
    responses,  \* what the invocations so far returned, in order
    now,        \* the clock read by new Date()
    preflight,  \* what the last OPTIONS invocation returned, if any
    changed     \* how many invocations had returned when the upstream went
                \* down, 0 while it is as it was

vars == <<pc, idx, locutor, programa, unicos, status, lastError,
          timers, requests, upstream, responses, now, preflight, changed>>

(***************************************************************************)
(* JavaScript values                                                       *)
(***************************************************************************)
Undef == [t |-> "undefined"]

Null == [t |-> "null"]

Bool(b) == [t |-> "boolean", b |-> b]

\* A finite number is m * 10^e, kept in one form: m is not a multiple of 10
\* unless it is 0, and then e is 0.
RECURSIVE Normal(_, _)
Normal(m, e) ==
    IF m = 0 THEN [t |-> "number", m |-> 0, e |-> 0]
    ELSE IF m % 10 = 0 THEN Normal(m \div 10, e + 1)
    ELSE [t |-> "number", m |-> m, e |-> e]

\* The number n + f / 10.
Num(n, f) == Normal(10 * n + f, 0 - 1)

Whole(n) == Normal(n, 0)

NaN == [t |-> "NaN"]

PosInf == [t |-> "Infinity"]

NegInf == [t |-> "-Infinity"]

Str(s) == [t |-> "string", s |-> s]

Obj(o) == [t |-> "object", o |-> o]

Arr(a) == [t |-> "array", a |-> a]

IsNullish(v) == v.t \in {"undefined", "null"}

\* ToBoolean: undefined, null, false, 0, NaN and "" are falsy.
Truthy(v) ==
    CASE v.t \in {"undefined", "null", "NaN"} -> FALSE
      [] v.t = "boolean" -> v.b
      [] v.t = "number" -> v.m # 0
      [] v.t = "string" -> v.s # <<>>
      [] OTHER -> TRUE

\* a ?? b in the place of a || b: only null and undefined fall through.
OrNullish(a, b) == IF IsNullish(a) THEN b ELSE a

\* a || b
Or(a, b) == IF Truthy(a) THEN a ELSE b

\* a || b in the place of a ?? b: zero and the empty string fall through too.
CoalesceFalsy(a, b) == IF Truthy(a) THEN a ELSE b

\* a ?? b
Coalesce(a, b) == IF IsNullish(a) THEN b ELSE a

\* v.k on a value parsed from JSON; the caller guards against a nullish v.
Get(v, k) == IF v.t = "object" /\ k \in DOMAIN v.o THEN v.o[k] ELSE Undef

\* v?.k
GetOpt(v, k) == IF IsNullish(v) THEN Undef ELSE Get(v, k)

\* x > 0 for a number x
GreaterThanZero(x) ==
    CASE x.t = "number" -> x.m > 0
      [] x.t = "Infinity" -> TRUE
      [] OTHER -> FALSE

\* Number.isFinite
IsFinite(x) == x.t = "number"

(***************************************************************************)
(* Strings                                                                 *)
(***************************************************************************)
Digits == <<"0", "1", "2", "3", "4", "5", "6", "7", "8", "9">>

IsDigit(c) == \E i \in 1..10 : Digits[i] = c

DigitVal(c) == (CHOOSE i \in 1..10 : Digits[i] = c) - 1

\* The WhiteSpace and LineTerminator characters of ECMAScript, which trim and
\* the conversion of a string to a number remove.  A character that has no
\* escape in a TLA+ string is written as its code point.
WhiteSpace ==
    {"\t", "U+000B", "\f", " ", "U+00A0", "U+FEFF", "U+1680",
     "U+2000", "U+2001", "U+2002", "U+2003", "U+2004", "U+2005", "U+2006",
     "U+2007", "U+2008", "U+2009", "U+200A", "U+202F", "U+205F", "U+3000"}

LineTerminator == {"\n", "\r", "U+2028", "U+2029"}

IsSpace(c) == c \in WhiteSpace \cup LineTerminator

RECURSIVE TrimStart(_)
TrimStart(s) ==
    IF s # <<>> /\ IsSpace(Head(s)) THEN TrimStart(Tail(s)) ELSE s

RECURSIVE TrimEnd(_)
TrimEnd(s) ==
    IF s # <<>> /\ IsSpace(s[Len(s)]) THEN TrimEnd(SubSeq(s, 1, Len(s) - 1)) ELSE s

\* String.prototype.trim
Trim(s) == TrimEnd(TrimStart(s))

\* The value of a run of decimal digits.
RECURSIVE DigitsValue(_)
DigitsValue(s) ==
    IF s = <<>> THEN 0 ELSE 10 * DigitsValue(SubSeq(s, 1, Len(s) - 1)) + DigitVal(s[Len(s)])

AllDigits(s) == \A i \in 1..Len(s) : IsDigit(s[i])

RECURSIVE StripLeadingZeros(_)
StripLeadingZeros(s) ==
    IF s # <<>> /\ Head(s) = "0" THEN StripLeadingZeros(Tail(s)) ELSE s

RECURSIVE StripTrailingZeros(_)
StripTrailingZeros(s) ==
    IF s # <<>> /\ s[Len(s)] = "0"
    THEN StripTrailingZeros(SubSeq(s, 1, Len(s) - 1)) ELSE s

\* Digit i of the fraction 0.s, which goes on with zeros.
FractionDigit(s, i) == IF i <= Len(s) THEN DigitVal(s[i]) ELSE 0

\* The digits a, read as 0.a, are at least the digits b, read as 0.b: they
\* are the same fraction, or a has the larger digit where they first differ.
FractionAtLeast(a, b) ==
    \A i \in 1..(Len(a) + Len(b)) :
        \/ FractionDigit(a, i) >= FractionDigit(b, i)
        \/ \E k \in 1..(i - 1) : FractionDigit(a, k) > FractionDigit(b, k)

\* The significant digits the model keeps exactly: more would need the
\* rounding of a double, and integers in TLC have 32 bits.
MaxDigits == 9

\* The 309 digits of 2^1024 - 2^970, halfway between the largest double and
\* 2^1024: a magnitude from there on rounds to Infinity, one below it does not.
Overflow ==
    <<"1", "7", "9", "7", "6", "9", "3", "1", "3", "4", "8", "6", "2", "3", "1", "5",
      "8", "0", "7", "9", "3", "7", "2", "8", "9", "7", "1", "4", "0", "5", "3", "0",
      "3", "4", "1", "5", "0", "7", "9", "9", "3", "4", "1", "3", "2", "7", "1", "0",
      "0", "3", "7", "8", "2", "6", "9", "3", "6", "1", "7", "3", "7", "7", "8", "9",
      "8", "0", "4", "4", "4", "9", "6", "8", "2", "9", "2", "7", "6", "4", "7", "5",
      "0", "9", "4", "6", "6", "4", "9", "0", "1", "7", "9", "7", "7", "5", "8", "7",
      "2", "0", "7", "0", "9", "6", "3", "3", "0", "2", "8", "6", "4", "1", "6", "6",
      "9", "2", "8", "8", "7", "9", "1", "0", "9", "4", "6", "5", "5", "5", "5", "4",
      "7", "8", "5", "1", "9", "4", "0", "4", "0", "2", "6", "3", "0", "6", "5", "7",
      "4", "8", "8", "6", "7", "1", "5", "0", "5", "8", "2", "0", "6", "8", "1", "9",
      "0", "8", "9", "0", "2", "0", "0", "0", "7", "0", "8", "3", "8", "3", "6", "7",
      "6", "2", "7", "3", "8", "5", "4", "8", "4", "5", "8", "1", "7", "7", "1", "1",
      "5", "3", "1", "7", "6", "4", "4", "7", "5", "7", "3", "0", "2", "7", "0", "0",
      "6", "9", "8", "5", "5", "5", "7", "1", "3", "6", "6", "9", "5", "9", "6", "2",
      "2", "8", "4", "2", "9", "1", "4", "8", "1", "9", "8", "6", "0", "8", "3", "4",
      "9", "3", "6", "4", "7", "5", "2", "9", "2", "7", "1", "9", "0", "7", "4", "1",
      "6", "8", "4", "4", "4", "3", "6", "5", "5", "1", "0", "7", "0", "4", "3", "4",
      "2", "7", "1", "1", "5", "5", "9", "6", "9", "9", "5", "0", "8", "0", "9", "3",
      "0", "4", "2", "8", "8", "0", "1", "7", "7", "9", "0", "4", "1", "7", "4", "4",
      "9", "7", "7", "9", "2">>

\* A string whose number is outside what the model holds has no value here.
NotHeld(s) == CHOOSE x \in {} : x = s

\* The double nearest to 0.d1d2... * 10^(x + 1) for digits d1 # "0" not ending
\* in "0": Infinity from 2^1024 - 2^970 on, 0 below 10^-324, the
\* decimal itself for a normal double of at most MaxDigits digits.
Nearest(digits, x) ==
    IF x > 308 \/ (x = 308 /\ FractionAtLeast(digits, Overflow)) THEN PosInf
    ELSE IF x < 0 - 324 THEN Whole(0)
    ELSE IF x < 0 - 307 \/ Len(digits) > MaxDigits THEN NotHeld(digits)
    ELSE Normal(DigitsValue(digits), x - Len(digits) + 1)

\* The longest mantissa the model converts: beyond it the exponent cap
\* below could be made up for by the zeros of the mantissa.
MaxMantissa == 100000000

\* An exponent that, with a mantissa of at most MaxMantissa characters that
\* is not zero, overflows when positive and underflows when negative.
ExponentCap == 1000000000

\* The value of the exponent digits s: exact below ExponentCap, which has ten
\* digits, and ExponentCap from there on.
ExponentValue(s) ==
    IF Len(StripLeadingZeros(s)) > 9 THEN ExponentCap
    ELSE DigitsValue(StripLeadingZeros(s))

\* The first position of s that holds a character of C, Len(s) + 1 if none.
FirstIndex(s, C) ==
    IF \E i \in 1..Len(s) : s[i] \in C
    THEN CHOOSE i \in 1..Len(s) : s[i] \in C /\ \A j \in 1..(i - 1) : s[j] \notin C
    ELSE Len(s) + 1

\* ExponentPart, from its e or E on, is well formed: a sign at most and one
\* digit or more.  No exponent part at all is well formed too.
ExponentOk(t) ==
    \/ t = <<>>
    \/ /\ Len(t) >= 2
       /\ IF t[2] \in {"+", "-"}
          THEN Len(t) >= 3 /\ AllDigits(SubSeq(t, 3, Len(t)))
          ELSE AllDigits(Tail(t))

\* The value of a well formed exponent part, 0 if there is none.
ExponentOf(t) ==
    IF t = <<>> THEN 0
    ELSE IF t[2] = "-" THEN 0 - ExponentValue(SubSeq(t, 3, Len(t)))
    ELSE IF t[2] = "+" THEN ExponentValue(SubSeq(t, 3, Len(t)))
    ELSE ExponentValue(Tail(t))

\* The number lead * 10^e10 for digits lead that do not begin with "0".
Significant(lead, e10) ==
    IF lead = <<>> THEN Whole(0)
    ELSE Nearest(StripTrailingZeros(lead), e10 + Len(lead) - 1)

\* The number ip.fp * 10^ex: digits on one side of the point at least.
PointDecimal(ip, fp, ex) ==
    IF AllDigits(ip) /\ AllDigits(fp) /\ (ip # <<>> \/ fp # <<>>)
    THEN Significant(StripLeadingZeros(ip \o fp), ex - Len(fp))
    ELSE NaN

\* The mantissa mant, with its point at dot or none, times 10^ex.
Mantissa(mant, dot, ex) ==
    PointDecimal(SubSeq(mant, 1, dot - 1), SubSeq(mant, dot + 1, Len(mant)), ex)

\* The literal s whose exponent part begins at mark.
DecimalAt(s, mark) ==
    IF mark - 1 > MaxMantissa THEN NotHeld(s)
    ELSE IF ExponentOk(SubSeq(s, mark, Len(s)))
    THEN Mantissa(SubSeq(s, 1, mark - 1), FirstIndex(SubSeq(s, 1, mark - 1), {"."}),
                  ExponentOf(SubSeq(s, mark, Len(s))))
    ELSE NaN

\* StrUnsignedDecimalLiteral: "ddd", "ddd.", "ddd.ddd", ".ddd", each with an
\* optional exponent part e or E, optional sign, digits; NaN for anything else.
UnsignedDecimal(s) == DecimalAt(s, FirstIndex(s, {"e", "E"}))

\* The digits of the radixes 2, 8 and 16; letters in either case.
RadixDigits ==
    <<<<"0">>, <<"1">>, <<"2">>, <<"3">>, <<"4">>, <<"5">>, <<"6">>, <<"7">>,
      <<"8">>, <<"9">>, <<"a", "A">>, <<"b", "B">>, <<"c", "C">>, <<"d", "D">>,
      <<"e", "E">>, <<"f", "F">>>>

IsRadixDigit(c, r) == \E i \in 1..r : \E k \in 1..Len(RadixDigits[i]) : RadixDigits[i][k] = c

RadixDigitVal(c) ==
    (CHOOSE i \in 1..16 : \E k \in 1..Len(RadixDigits[i]) : RadixDigits[i][k] = c) - 1

RECURSIVE RadixValue(_, _)
RadixValue(s, r) ==
    IF s = <<>> THEN 0
    ELSE r * RadixValue(SubSeq(s, 1, Len(s) - 1), r) + RadixDigitVal(s[Len(s)])

\* The radix a literal announces with 0x, 0o or 0b (either case), else 0.
RadixOf(u) ==
    IF Len(u) >= 2 /\ u[1] = "0"
    THEN CASE u[2] \in {"x", "X"} -> 16
           [] u[2] \in {"o", "O"} -> 8
           [] u[2] \in {"b", "B"} -> 2
           [] OTHER -> 0
    ELSE 0

\* NonDecimalIntegerLiteral: no sign, one digit or more; an integer the model
\* holds exactly, NaN for anything else.
RadixLiteral(u) ==
    LET r == RadixOf(u)
        ds == StripLeadingZeros(SubSeq(u, 3, Len(u)))
    IN  IF Len(u) >= 3 /\ \A i \in 3..Len(u) : IsRadixDigit(u[i], r)
        THEN IF Len(ds) * (IF r = 16 THEN 4 ELSE IF r = 8 THEN 3 ELSE 1) > 28
             THEN NotHeld(u)
             ELSE Whole(RadixValue(ds, r))
        ELSE NaN

\* -x
Negate(x) ==
    CASE x.t = "number" -> Normal(0 - x.m, x.e)
      [] x.t = "Infinity" -> NegInf
      [] x.t = "-Infinity" -> PosInf
      [] OTHER -> x

InfinityWord == <<"I", "n", "f", "i", "n", "i", "t", "y">>

\* The number of the trimmed, non-empty text u.
TrimmedToNumber(u) ==
    IF RadixOf(u) # 0 THEN RadixLiteral(u)
    ELSE IF Tail(u) = InfinityWord /\ Head(u) = "-" THEN NegInf
    ELSE IF u = InfinityWord \/ (Tail(u) = InfinityWord /\ Head(u) = "+") THEN PosInf
    ELSE IF Head(u) = "-" THEN Negate(UnsignedDecimal(Tail(u)))
    ELSE IF Head(u) = "+" THEN UnsignedDecimal(Tail(u))
    ELSE UnsignedDecimal(u)

\* StringToNumber: white space around the text is dropped; "" is 0; a signed
\* decimal literal or Infinity, or an unsigned literal of radix 16, 8 or 2,
\* is its value; anything else is NaN.
StringToNumber(s) ==
    IF Trim(s) = <<>> THEN Whole(0) ELSE TrimmedToNumber(Trim(s))

\* Converting v to a primitive throws a TypeError: v is an object whose own
\* toString is not callable (nothing parsed from JSON is), which leaves
\* only valueOf, and that returns the object; or v is an array whose join
\* meets such an element.  null and undefined elements are joined as "".
RECURSIVE ToPrimitiveThrows(_)
ToPrimitiveThrows(v) ==
    CASE v.t = "object" -> "toString" \in DOMAIN v.o
      [] v.t = "array" -> \E i \in 1..Len(v.a) : ToPrimitiveThrows(v.a[i])
      [] OTHER -> FALSE

\* What Number(v) gives when the conversion throws its TypeError.
Thrown == [t |-> "TypeError"]

\* Number(v) for a value parsed from JSON: an object that converts is
\* "[object Object]", an array the join of its elements with commas.
RECURSIVE Number(_)
Number(v) ==
    CASE ToPrimitiveThrows(v) -> Thrown
      [] v.t = "undefined" -> NaN
      [] v.t = "null" -> Whole(0)
      [] v.t = "boolean" -> IF v.b THEN Whole(1) ELSE Whole(0)
      [] v.t = "string" -> StringToNumber(v.s)
      [] v.t = "object" -> NaN
      [] v.t = "array" ->
           IF Len(v.a) = 0 THEN Whole(0)
           ELSE IF Len(v.a) = 1
                THEN IF IsNullish(v.a[1]) THEN Whole(0)
                     ELSE IF v.a[1].t = "boolean" THEN NaN
                     ELSE Number(v.a[1])
                ELSE NaN
      [] OTHER -> v

\* txt.replace(/<[^>]+>/g, "")
RECURSIVE StripTags(_)
StripTags(s) ==
    IF s = <<>> THEN <<>>
    ELSE LET closes == {j \in 2..Len(s) : s[j] = ">"}
             close == IF closes = {} THEN 0
                      ELSE CHOOSE j \in closes : \A k \in closes : j <= k
         IN  IF Head(s) = "<" /\ close >= 3
             THEN StripTags(SubSeq(s, close + 1, Len(s)))
             ELSE <<Head(s)>> \o StripTags(Tail(s))

\* s.split(",")
RECURSIVE Split(_)
Split(s) ==
    LET commas == {i \in 1..Len(s) : s[i] = ","}
    IN  IF commas = {} THEN <<s>>
        ELSE LET c == CHOOSE i \in commas : \A j \in commas : i <= j
             IN  <<SubSeq(s, 1, c - 1)>> \o Split(SubSeq(s, c + 1, Len(s)))

\* parts.join(",")
RECURSIVE Join(_)
Join(parts) ==
    IF parts = <<>> THEN <<>>
    ELSE IF Len(parts) = 1 THEN parts[1]
         ELSE parts[1] \o <<",">> \o Join(Tail(parts))

RECURSIVE StripLeadingQuotes(_)
StripLeadingQuotes(s) ==
    IF s # <<>> /\ Head(s) = "\"" THEN StripLeadingQuotes(Tail(s)) ELSE s

RECURSIVE StripTrailingQuotes(_)
StripTrailingQuotes(s) ==
    IF s # <<>> /\ s[Len(s)] = "\""
    THEN StripTrailingQuotes(SubSeq(s, 1, Len(s) - 1)) ELSE s

\* title.replace(/^"+|"+$/g, "")
TrimQuotes(s) == StripTrailingQuotes(StripLeadingQuotes(s))

(***************************************************************************)
(* Errors and responses                                                    *)
(***************************************************************************)
\* The message of an error: a text, and the characters the engine puts in
\* the places marked % of the text, if it has any.
Message(text, args) == [text |-> text, args |-> args]

Fixed(text) == Message(text, <<>>)

\* JSON white space.
JsonSpace == {" ", "\t", "\n", "\r"}

\* The texts JSON.parse names whole when it rejects them.
SpecialTexts ==
    {<<"N", "a", "N">>, InfinityWord, <<"u", "n", "d", "e", "f", "i", "n", "e", "d">>,
     <<"[", "o", "b", "j", "e", "c", "t", " ", "O", "b", "j", "e", "c", "t", "]">>}

\* Characters that begin no JSON value and are no JSON token.
NoToken ==
    {"<", "A", "B", "C", "D", "E", "F", "G", "H", "I", "J", "K", "L", "M", "N",
     "O", "P", "Q", "R", "S", "T", "U", "V", "W", "X", "Y", "Z"}

\* The characters of the text that the message shows around the place of the
\* error, on either side; a text of up to twice as many is shown whole.
ContextLength == 10

\* The message of the SyntaxError res.json() rejects with (JSON.parse of the
\* body txt, as V8 words it): for a body that is empty or white space, for
\* one of the special texts, and for a body whose first character is one of
\* NoToken, shown whole when short and by its first characters otherwise.
\* Other bodies that are no JSON are not held.
SyntaxMessage(txt) ==
    IF \A i \in 1..Len(txt) : txt[i] \in JsonSpace
    THEN Fixed("Unexpected end of JSON input")
    ELSE IF txt \in SpecialTexts
    THEN Message("\"%\" is not valid JSON", <<txt>>)
    ELSE IF Head(txt) \in NoToken
    THEN IF Len(txt) <= 2 * ContextLength
         THEN Message("Unexpected token '%', \"%\" is not valid JSON",
                      <<<<Head(txt)>>, txt>>)
         ELSE Message("Unexpected token '%', \"%\"... is not valid JSON",
                      <<<<Head(txt)>>, SubSeq(txt, 1, ContextLength)>>)
    ELSE NotHeld(txt)

\* An Error object: its name, its message (with the HTTP status the message
\* of line 72 embeds, 0 otherwise) and the candidate whose attempt threw it.
Err(name, message, code, at) ==
    [name |-> name, message |-> message, code |-> code, at |-> at]

\* String(e) for lastError: "null", or "<name>: <message>".
ErrorString(e) ==
    IF e = Null THEN [name |-> "null", message |-> Fixed(""), code |-> 0]
    ELSE [name |-> e.name, message |-> e.message, code |-> e.code]

Headers ==
    [ContentType |-> "application/json; charset=utf-8", AccessControlAllowOrigin |-> "*"]

\* The value JSON.stringify writes for v, wherever v is in the data: NaN and
\* the infinities are written as null at any depth, an undefined element of
\* an array too, and an undefined property of an object is left out.
RECURSIVE Stringify(_)
Stringify(v) ==
    CASE v.t \in {"NaN", "Infinity", "-Infinity"} -> Null
      [] v.t = "array" ->
           Arr([i \in 1..Len(v.a) |->
                   IF v.a[i].t = "undefined" THEN Null ELSE Stringify(v.a[i])])
      [] v.t = "object" ->
           Obj([k \in {f \in DOMAIN v.o : v.o[f].t # "undefined"} |-> Stringify(v.o[k])])
      [] OTHER -> v

\* Lines 28-36: the body is JSON.stringify(data) for the envelope data of
\* line 145, whose success, timestamp and status JSON carries as they are
\* and none of whose fields is undefined.
okJson(data) ==
    [status |-> 200, headers |-> Headers,
     body |-> [success |-> data.success,
               timestamp |-> data.timestamp,
               data |-> [locutor |-> Stringify(data.data.locutor),
                         programa |-> Stringify(data.data.programa),
                         unicos |-> Stringify(data.data.unicos),
                         status |-> data.data.status]]]

errorJson(message) ==
    [status |-> 500, headers |-> Headers,
     body |-> [success |-> FALSE, error |-> message]]

\* No OPTIONS invocation has returned yet.
NoResponse == [status |-> 0, headers |-> <<>>, body |-> Null]

\* Lines 161-168: no body, status 200 and the three CORS headers.
OptionsResponse ==
    [status |-> 200,
     headers |-> [AccessControlAllowOrigin |-> "*",
                  AccessControlAllowMethods |-> "GET, OPTIONS",
                  AccessControlAllowHeaders |-> "Content-Type"],
     body |-> Null]

\* The placeholder of lines 149-150, the one character U+2014 (em dash).
Placeholder == Str(<<"U+2014">>)

DefaultMessage == [text |-> "Erro ao obter status da radio", last |-> ErrorString(Null)]

\* No outer handler: the exception leaves GET and no envelope is built.
CatchAllSkipped(err) == [status |-> 0, headers |-> Headers, body |-> [thrown |-> err]]

\* The handler of the outer try (lines 155-157): err?.message || default.
CatchAll(err) ==
    errorJson(IF err.message.text # "" THEN err.message ELSE DefaultMessage)

\* The error of line 142, whose message embeds String(lastError).
ExhaustionError(le) ==
    [name |-> "Error",
     message |-> [text |-> "Nenhum endpoint do Shoutcast respondeu. Ultimo erro: ",
                  last |-> ErrorString(le)]]

\* Lines 141-154: the check for exhaustion and the success envelope.
Finish(loc, prog, uni, st, le, t) ==
    IF uni = Null /\ prog = Null /\ loc = Null
    THEN CatchAll(ExhaustionError(le))
    ELSE okJson([success |-> TRUE,
                 timestamp |-> t,
                 data |-> [locutor |-> Or(loc, Placeholder),
                           programa |-> Or(prog, Placeholder),
                           unicos |-> Number(Coalesce(uni, Whole(0))),
                           status |-> st]])

(***************************************************************************)
(* The four payload shapes.  A branch ends in "break" with the four result *)
(* variables set, in "throw" with the error thrown and the variables it    *)
(* had assigned by then, or falls through.                                 *)
(***************************************************************************)
Break(loc, prog, uni, st) ==
    [end |-> "break", locutor |-> loc, programa |-> prog, unicos |-> uni, status |-> st]

\* Nothing was assigned before the throw.
Nothing == <<>>

\* The branch throws before it assigns any of the four locals.
Throw(name, message) ==
    [end |-> "throw", name |-> name, message |-> message, assigned |-> Nothing]

\* The branch throws in the conversion of the listener count, after it has
\* assigned locutor and programa.
ThrowAfter(name, message, loc, prog) ==
    [end |-> "throw", name |-> name, message |-> message,
     assigned |-> [locutor |-> loc, programa |-> prog]]

\* The TypeError of a count that does not convert to a primitive.
NoPrimitive == "Cannot convert object to primitive value"

\* A branch that throws where the code falls through.
FallThroughThrows ==
    [end |-> "throw", name |-> "Error", message |-> "too few fields", assigned |-> <<>>]

FallThrough == [end |-> "fallthrough"]

\* Number(c ? 1 : 0) === 1 ? "online" : "offline"
StatusFromCondition(c) ==
    IF Number(IF Truthy(c) THEN Whole(1) ELSE Whole(0)) = Whole(1)
    THEN "online" ELSE "offline"

\* The end of the branches of lines 74-102 once the count is converted: the
\* conversion threw after locutor and programa were assigned, or the status
\* is computed from the flag, or from the count when there is no flag, and
\* the branch breaks.
Converted(loc, prog, uni, flag) ==
    IF uni = Thrown
    THEN ThrowAfter("TypeError", NoPrimitive, loc, prog)
    ELSE Break(loc, prog, uni,
               StatusFromCondition(
                   Coalesce(flag, Bool(GreaterThanZero(Coalesce(uni, Whole(0)))))))

\* Lines 78-91 for the record stream of the payload j.
StreamResult(stream, j) ==
    Converted(Coalesce(Or(Or(Get(stream, "dj"), Get(j, "dj")), Null), Null),
              Coalesce(Or(Or(Or(Get(stream, "songtitle"),
                                Get(stream, "servertitle")),
                             Get(j, "songtitle")), Null), Null),
              Number(Coalesce(Coalesce(Coalesce(Coalesce(
                         Get(stream, "uniquelisteners"),
                         Get(j, "uniquelisteners")),
                         Get(stream, "currentlisteners")),
                         Get(j, "currentlisteners")),
                         Whole(0))),
              Coalesce(Get(stream, "streamstatus"), Get(j, "streamstatus")))

\* Lines 74-93.  Line 81 throws, after lines 78 and 79 have assigned, when
\* the count does not convert to a primitive.
ShapeA(j) ==
    IF IsNullish(j) THEN Throw("TypeError", "Cannot read properties of null")
    ELSE IF Get(j, "streams").t = "array" /\ Len(Get(j, "streams").a) # 0
    THEN IF IsNullish(Get(j, "streams").a[1])
         THEN Throw("TypeError", "Cannot read properties of null")
         ELSE StreamResult(Get(j, "streams").a[1], j)
    ELSE StreamResult(j, j)

\* Lines 95-102.  Line 99 throws, after lines 97 and 98 have assigned, when
\* the count does not convert to a primitive.
ShapeB(j) ==
    IF IsNullish(j) THEN Throw("TypeError", "Cannot read properties of null")
    ELSE Converted(Coalesce(Or(Or(Get(j, "dj"), Get(j, "songtitle")), Null), Null),
                   Coalesce(Or(Or(Get(j, "songtitle"), Get(j, "servertitle")), Null), Null),
                   Number(Coalesce(Coalesce(Get(j, "uniquelisteners"),
                                            Get(j, "currentlisteners")),
                                   Whole(0))),
                   Get(j, "streamstatus"))

\* Lines 110-116 for the fields parts, of which field 0 converts to current.
SevenFields(parts, current) ==
    Break(Null,
          Or(Str(TrimQuotes(Join(SubSeq(parts, 7, Len(parts))))), Null),
          IF IsFinite(current) THEN current ELSE Whole(0),
          IF GreaterThanZero(current) THEN "online" ELSE "offline")

\* Lines 104-118.
ShapeC(txt) ==
    LET parts == Split(Trim(StripTags(txt)))
    IN  IF Len(parts) >= 7
        THEN SevenFields(parts, StringToNumber(parts[1]))
        ELSE FallThrough

\* Lines 128-133 for the source s: the count is converted before any local
\* is assigned.
SourceResult(s, listeners) ==
    IF listeners = Thrown
    THEN Throw("TypeError", NoPrimitive)
    ELSE Break(Null,
               Or(Or(GetOpt(s, "title"), GetOpt(s, "server_name")), Null),
               listeners,
               IF GreaterThanZero(listeners) THEN "online" ELSE "offline")

\* Lines 122-127: the first source of a list, else the one source.
SourceOf(j) ==
    IF /\ Truthy(j)
       /\ Truthy(Get(j, "icestats"))
       /\ Get(Get(j, "icestats"), "source").t = "array"
    THEN IF Len(Get(Get(j, "icestats"), "source").a) = 0 THEN Undef
         ELSE Get(Get(j, "icestats"), "source").a[1]
    ELSE Or(GetOpt(GetOpt(j, "icestats"), "source"), GetOpt(j, "source"))

\* A last branch that reads nothing and does not break.
ShapeDReadsNothing(j) == FallThrough

\* Lines 120-134.
ShapeD(j) ==
    SourceResult(SourceOf(j), Number(Coalesce(GetOpt(SourceOf(j), "listeners"), Whole(0))))

(***************************************************************************)
(* Bounds of the model and the inputs drawn                                *)
(***************************************************************************)
MaxRuns == 2

MaxListeners == 2

DjMike == <<"D", "J", " ", "M", "i", "k", "e">>

DjAna == <<"D", "J", " ", "A", "n", "a">>

SongArtist == <<"S", "o", "n", "g", " ", "-", " ", "A", "r", "t", "i", "s", "t">>

ListenerValues ==
    {Undef, Null, Whole(0 - 1), Num(2, 5), Str(<<"a", "b", "c">>), Str(<<"3">>),
     Str(<<"1", "e", "3">>), Str(<<"0", "x", "1", "0">>), Str(<<"2", ".", "5", "5">>),
     Str(<<"\f", "2", "U+00A0">>), Arr(<<Str(<<"2">>)>>), Obj(<<>>)}
        \cup {Whole(n) : n \in 0..MaxListeners}

FlagValues == {Undef, Null, Whole(0), Whole(1), Whole(2)}

\* A value JSON can carry that does not convert to a primitive: its own
\* toString is a number.
NoToString == Obj("toString" :> Whole(1))

\* A count that rounds to Infinity, written 1.8e308.
JustOver == <<"1", ".", "8", "e", "3", "0", "8">>

\* A listener field that is absent, null, zero or positive.
CountValues == {Undef, Null, Whole(0), Whole(MaxListeners)}

TextValues == {Undef, Null, Str(<<>>), Str(DjMike)}

\* Objects with the fields k1, k2 drawn from V1, V2; an undefined field is
\* left out, as JSON has no undefined.
Fields1(k, V) ==
    {IF v = Undef THEN <<>> ELSE (k :> v) : v \in V}

Fields2(k1, V1, k2, V2) ==
    {a @@ b : a \in Fields1(k1, V1), b \in Fields1(k2, V2)}

\* Payloads of /statistics?json=1.  JSON.parse reads a number too large for
\* a double, such as 1e999, as Infinity.
PayloadsA ==
    {Null, Whole(5), Obj(<<>>),
     Obj(("dj" :> Str(DjMike)) @@ ("uniquelisteners" :> NoToString)),
     Obj("uniquelisteners" :> Str(JustOver)),
     Obj("dj" :> PosInf), Obj("songtitle" :> NegInf),
     Obj(("dj" :> Arr(<<PosInf>>)) @@ ("songtitle" :> Obj("a" :> PosInf))),
     Obj(("dj" :> Str(DjMike)) @@ ("streams" :> Arr(<<Obj("dj" :> PosInf)>>)))}
        \cup {Obj(o) : o \in Fields2("uniquelisteners", ListenerValues,
                                     "streamstatus", FlagValues)}
        \cup {Obj(o) : o \in Fields2("dj", TextValues, "songtitle", TextValues)}
        \cup {Obj(o @@ ("streams" :> Arr(<<>>))) :
                 o \in Fields1("currentlisteners", ListenerValues)}
        \cup {Obj(o @@ ("streams" :> Arr(<<Obj(r)>>))) :
                 o \in Fields2("dj", {Undef, Str(DjMike)}, "streamstatus", {Undef, Whole(0)}),
                 r \in Fields2("dj", {Null}, "uniquelisteners", {Whole(0), Whole(MaxListeners)})
                       \cup Fields2("streamstatus", {Whole(1), Whole(2)},
                                    "servertitle", {Undef, Str(SongArtist)})}
        \cup {Obj(o @@ ("streams" :> Arr(<<Obj(r)>>))) :
                 o \in Fields2("uniquelisteners", CountValues,
                               "currentlisteners", CountValues),
                 r \in Fields2("uniquelisteners", CountValues,
                               "currentlisteners", CountValues)}
        \cup {Obj(o @@ ("streams" :> Arr(<<Obj(r)>>))) :
                 o \in Fields1("dj", {Undef, Null, Str(DjMike)}),
                 r \in Fields2("dj", {Undef, Str(<<>>), Str(DjAna)},
                               "uniquelisteners", {Whole(0)})}

\* Payloads of /stats?sid=1&json=1 and /stats?json=1.
PayloadsB ==
    {Obj(<<>>), Obj("dj" :> PosInf),
     Obj(("songtitle" :> Str(SongArtist)) @@ ("currentlisteners" :> Arr(<<NoToString>>)))}
        \cup {Obj(o) : o \in Fields2("currentlisteners", {Undef, Whole(0), Whole(MaxListeners)},
                                     "streamstatus", {Undef, Whole(1), Whole(2)})}
        \cup {Obj(o) : o \in Fields2("dj", {Undef, Str(DjMike)},
                                     "songtitle", {Undef, Str(SongArtist)})}

Middle == <<",", "1", "0", ",", "1", "0", "0", ",", "0", ",", "1", "2", "8", ",", "0", ",">>

CountTexts ==
    {<<"2">>, <<"0">>, <<"-", "1">>, <<"2", ".", "5">>, <<"a">>, <<>>, InfinityWord,
     <<"1", "e", "3">>}

TitleTexts == {SongArtist, <<"\"", "A", ",", "B", "\"">>, <<>>}

HtmlOpen == <<"<", "b", "o", "d", "y", ">">>

HtmlClose == <<"<", "/", "b", "o", "d", "y", ">">>

\* Bodies of /7.html: seven or more fields, bare or inside markup, and fewer.
TextsC ==
    {c \o Middle \o t : c \in CountTexts, t \in TitleTexts}
        \cup {HtmlOpen \o <<"2">> \o Middle \o SongArtist \o HtmlClose \o <<"\n">>}
        \cup {<<"\f", "2">> \o Middle \o <<"t", "U+000B">>}
        \cup {<<"1", ",", "2", ",", "3">>}

\* Payloads of /status-json.xsl.
PayloadsD ==
    {Null, Obj(<<>>), Obj("icestats" :> Obj("source" :> Arr(<<>>))),
     Obj("source" :> Obj(("title" :> Str(SongArtist)) @@ ("listeners" :> NoToString)))}
        \cup {Obj("icestats" :> Obj("source" :> Obj(o))) :
                 o \in Fields1("listeners", {Undef, Whole(0 - 1), Whole(0), Num(2, 5),
                                              Str(<<"a", "b", "c">>)})}
        \cup {Obj("icestats" :> Obj("source" :> Arr(<<Obj(o)>>))) :
                 o \in Fields2("listeners", {Undef, Whole(MaxListeners)},
                               "title", {Undef, Str(SongArtist)})}
        \cup {Obj("source" :> Obj(o)) :
                 o \in Fields2("listeners", {Whole(1)}, "server_name", {Undef, Str(SongArtist)})}

(***************************************************************************)
(* The candidates (lines 52-60) and what an endpoint may do when requested *)
(***************************************************************************)
urls ==
    <<"/statistics?json=1", "/stats?sid=1&json=1", "/stats?json=1", "/7.html",
      "/status-json.xsl">>

\* The tests of lines 74, 95, 104 and 120 on the five URLs.
EndsWithStatistics(u) == u = "/statistics?json=1"

IncludesStats(u) == u \in {"/stats?sid=1&json=1", "/stats?json=1"}

EndsWith7Html(u) == u = "/7.html"

EndsWithStatusJson(u) == u = "/status-json.xsl"

Unprobed == [net |-> "unprobed"]

\* fetch rejects: the connection cannot be made.
Refused == [net |-> "refused"]

\* No response headers arrive before the timeout.
Silent == [net |-> "silent"]

\* Response headers arrive with an HTTP status; the body follows, or not.
Response(code, body) == [net |-> "response", code |-> code, body |-> body]

NoBody == [k |-> "none"]

\* The body never completes.
Stall == [k |-> "stall"]

\* The connection breaks while the body is read.
Reset == [k |-> "reset"]

\* The body is read and its text txt is no JSON.
Invalid(txt) == [k |-> "invalid", txt |-> txt]

Json(v) == [k |-> "json", v |-> v]

Text(txt) == [k |-> "text", txt |-> txt]

ErrorCodes == {503}

\* An HTML page in the place of JSON.
HtmlPage == <<"<", "!", "D", "O", "C", "T", "Y", "P", "E", " ", "h", "t", "m", "l", ">", "<", "h", "t", "m", "l", ">", "<", "/", "h", "t", "m", "l", ">">>

\* A short page that quotes the word null.
NullPage == <<"<", "n", "u", "l", "l", ">">>

\* What may follow the headers of an ok response from candidate i: a body
\* that stalls, JSON text that parses, text that is no JSON (a page, NaN, the
\* empty body), or text that may break off while it is read.
Bodies(i) ==
    {Stall} \cup
    CASE EndsWithStatistics(urls[i]) ->
             {Invalid(HtmlPage)} \cup {Json(v) : v \in PayloadsA}
      [] IncludesStats(urls[i]) ->
             {Invalid(<<"N", "a", "N">>)} \cup {Json(v) : v \in PayloadsB}
      [] EndsWith7Html(urls[i]) -> {Reset} \cup {Text(t) : t \in TextsC}
      [] OTHER -> {Invalid(<<>>), Invalid(NullPage)} \cup {Json(v) : v \in PayloadsD}

Outcomes ==
    [i \in 1..Len(urls) |->
        {Refused, Silent}
            \cup {Response(c, NoBody) : c \in ErrorCodes}
            \cup {Response(200, b) : b \in Bodies(i)}]

\* res.ok
Ok(res) == res.code \in 200..299

(***************************************************************************)
(* fetchWithTimeout (lines 7-26) and the loop of GET (lines 69-139)        *)
(***************************************************************************)
\* Line 9.
SetTimeout(ts, id) == ts \cup {id}

\* A timer that is never cleared.
ClearTimeoutForgotten(ts, id) == ts

\* Line 24, the finally of fetchWithTimeout.
ClearTimeout(ts, id) == ts \ {id}

\* Line 69: the loop starts at the first candidate.
FirstCandidate == 1

\* The break statements of lines 92, 101, 116 and 133.
LoopEnds(r) == r.end = "break"

\* A catch that continues without recording the error.
CaughtDropped(e, le) == le

\* Lines 135-137: what the catch records in lastError.
Caught(e, le) == e

\* The branches of lines 74-134 for candidate i on a body that was read: the
\* 7.html branch breaks only on seven or more fields, and control then passes
\* to the test of line 120.
Branch(i, body) ==
    IF EndsWithStatistics(urls[i]) THEN ShapeA(body.v)
    ELSE IF IncludesStats(urls[i]) THEN ShapeB(body.v)
    ELSE LET c == IF EndsWith7Html(urls[i]) THEN ShapeC(body.txt) ELSE FallThrough
         IN  IF c.end = "break" THEN c
             ELSE IF EndsWithStatusJson(urls[i]) THEN ShapeD(body.v)
             ELSE FallThrough

\* GET returns: lines 141-157.
Return ==
    /\ responses' = Append(responses,
                           Finish(locutor', programa', unicos', status', lastError', now'))
    /\ pc' = "idle"
    /\ UNCHANGED <<idx, requests, upstream, preflight, changed>>

\* Lines 69-71: the iteration for candidate i calls fetchWithTimeout, which
\* arms its timer and awaits fetch; past the last candidate GET returns.
Iterate(i) ==
    IF i <= Len(urls)
    THEN /\ \E o \in Outcomes[i] :
              /\ upstream[i] \in {Unprobed, o}
              /\ upstream' = [upstream EXCEPT ![i] = o]
         /\ idx' = i
         /\ timers' = SetTimeout(ClearTimeout(timers, idx), i)
         /\ requests' = Append(requests, i)
         /\ pc' = "fetch"
         /\ UNCHANGED <<responses, preflight, changed>>
    ELSE /\ timers' = ClearTimeout(timers, idx)
         /\ Return

\* A loop that tries the same candidate again.
NextCandidateAgain(i) == i

\* Line 69: for ... of moves on to the candidate after i.
NextCandidate(i) == i + 1

\* The attempt on the current candidate throws e, having assigned the locals
\* of a: the catch of lines 135-138 records e and the loop goes on.
Fail(name, message, code, a) ==
    /\ lastError' = Caught(Err(name, message, code, idx), lastError)
    /\ locutor' = IF "locutor" \in DOMAIN a THEN a.locutor ELSE locutor
    /\ programa' = IF "programa" \in DOMAIN a THEN a.programa ELSE programa
    /\ UNCHANGED <<unicos, status, now>>
    /\ Iterate(NextCandidate(idx))

Init ==
    /\ pc = "idle"
    /\ idx = 0
    /\ locutor = Null
    /\ programa = Null
    /\ unicos = Null
    /\ status = "offline"
    /\ lastError = Null
    /\ timers = {}
    /\ requests = <<>>
    /\ upstream = [i \in 1..Len(urls) |-> Unprobed]
    /\ responses = <<>>
    /\ now = 0
    /\ preflight = NoResponse
    /\ changed = 0

\* Every endpoint refuses the connection.
Down == [i \in 1..Len(urls) |-> Refused]

\* The upstream an invocation meets: as the invocations before left it, the
\* first candidate answering now if it was never requested, or, once, gone
\* down since the last invocation returned.
Meets ==
    \/ /\ \E o \in Outcomes[FirstCandidate] :
             /\ upstream[FirstCandidate] \in {Unprobed, o}
             /\ upstream' = [upstream EXCEPT ![FirstCandidate] = o]
       /\ changed' = changed
    \/ /\ responses # <<>>
       /\ changed = 0
       /\ upstream' = Down
       /\ changed' = Len(responses)

\* An invocation whose locals are those the invocation before it left.
GETKeepsLocals ==
    /\ pc = "idle"
    /\ Len(responses) < MaxRuns
    /\ now' = now + 1
    /\ UNCHANGED <<locutor, programa, unicos, status, lastError>>
    /\ Meets
    /\ idx' = FirstCandidate
    /\ timers' = SetTimeout(timers, FirstCandidate)
    /\ requests' = <<FirstCandidate>>
    /\ pc' = "fetch"
    /\ UNCHANGED <<responses, preflight>>

\* GET is invoked (lines 49-67) and runs to its first await: its locals are
\* new (lines 62-67) and the loop requests the first candidate.
GET ==
    /\ pc = "idle"
    /\ Len(responses) < MaxRuns
    /\ now' = now + 1
    /\ locutor' = Null
    /\ programa' = Null
    /\ unicos' = Null
    /\ status' = "offline"
    /\ lastError' = Null
    /\ Meets
    /\ idx' = FirstCandidate
    /\ timers' = SetTimeout(timers, FirstCandidate)
    /\ requests' = <<FirstCandidate>>
    /\ pc' = "fetch"
    /\ UNCHANGED <<responses, preflight>>

\* fetch rejects (line 11); the finally clears the timer; the catch records it.
FetchRejects ==
    /\ pc = "fetch"
    /\ upstream[idx] = Refused
    /\ Fail("TypeError", Fixed("fetch failed"), 0, Nothing)

\* The timer fires (line 9): abort makes fetch reject with an AbortError.
TimeoutAbort ==
    /\ pc = "fetch"
    /\ idx \in timers
    /\ upstream[idx] = Silent
    /\ Fail("AbortError", Fixed("This operation was aborted"), 0, Nothing)

\* fetch resolves with a response that is not ok: line 72 throws.
ResponseNotOk ==
    /\ pc = "fetch"
    /\ upstream[idx].net = "response"
    /\ ~Ok(upstream[idx])
    /\ Fail("Error", Fixed("HTTP"), upstream[idx].code, Nothing)

\* fetch resolves with an ok response: the timer is cleared (line 24) and the
\* branch for the candidate awaits res.json() or res.text().
ResponseOk ==
    /\ pc = "fetch"
    /\ upstream[idx].net = "response"
    /\ Ok(upstream[idx])
    /\ timers' = ClearTimeout(timers, idx)
    /\ pc' = "body"
    /\ UNCHANGED <<idx, locutor, programa, unicos, status, lastError, requests,
                   upstream, responses, now, preflight, changed>>

\* res.json() or res.text() rejects: the connection broke, or the text is no
\* JSON and JSON.parse throws the SyntaxError that describes it.
BodyFails ==
    /\ pc = "body"
    /\ \/ /\ upstream[idx].body = Reset
          /\ Fail("TypeError", Fixed("terminated"), 0, Nothing)
       \/ /\ upstream[idx].body.k = "invalid"
          /\ Fail("SyntaxError", SyntaxMessage(upstream[idx].body.txt), 0, Nothing)

\* The body is read and the branch for the candidate runs to its end.
BodyRead ==
    /\ pc = "body"
    /\ upstream[idx].body.k \in {"json", "text"}
    /\ LET r == Branch(idx, upstream[idx].body)
       IN  IF r.end = "throw"
           THEN Fail(r.name, Fixed(r.message), 0, r.assigned)
           ELSE /\ lastError' = lastError
                /\ now' = now
                /\ IF r.end = "fallthrough"
                   THEN UNCHANGED <<locutor, programa, unicos, status>>
                   ELSE /\ locutor' = r.locutor
                        /\ programa' = r.programa
                        /\ unicos' = r.unicos
                        /\ status' = r.status
                /\ IF LoopEnds(r)
                   THEN /\ timers' = timers
                        /\ Return
                   ELSE Iterate(NextCandidate(idx))

\* A second handler that does what GET does first: it requests a candidate.
OPTIONSProbing ==
    /\ preflight' = OptionsResponse
    /\ requests' = Append(requests, FirstCandidate)
    /\ timers' = SetTimeout(timers, FirstCandidate)
    /\ UNCHANGED <<pc, idx, locutor, programa, unicos, status, lastError,
                   upstream, responses, now, changed>>

\* OPTIONS is invoked (lines 160-169), at any time, also while a GET is
\* suspended: it builds its response and returns.
OPTIONS ==
    /\ preflight' = OptionsResponse
    /\ UNCHANGED <<pc, idx, locutor, programa, unicos, status, lastError,
                   timers, requests, upstream, responses, now, changed>>

\* The steps of a running GET.
Resume ==
    \/ FetchRejects
    \/ TimeoutAbort
    \/ ResponseNotOk
    \/ ResponseOk
    \/ BodyFails
    \/ BodyRead

Next ==
    \/ OPTIONS
    \/ GET
    \/ Resume

Spec == Init /\ [][Next]_vars

(***************************************************************************)
(* Properties                                                              *)
(***************************************************************************)
Last(q) == q[Len(q)]

Returned == pc = "idle" /\ responses # <<>>

Succeeded == Returned /\ Last(responses).status = 200

\* GET succeeded by breaking out of the loop on the body of candidate idx.
Stopped ==
    /\ Succeeded
    /\ upstream[idx].net = "response"
    /\ Ok(upstream[idx])
    /\ upstream[idx].body.k \in {"json", "text"}
    /\ Branch(idx, upstream[idx].body).end = "break"

\* The attempt on the current candidate is about to throw.
AttemptFails ==
    \/ /\ pc = "fetch"
       /\ \/ upstream[idx] \in {Refused, Silent}
          \/ upstream[idx].net = "response" /\ ~Ok(upstream[idx])
    \/ /\ pc = "body"
       /\ \/ upstream[idx].body.k \in {"reset", "invalid"}
          \/ /\ upstream[idx].body.k \in {"json", "text"}
             /\ Branch(idx, upstream[idx].body).end = "throw"

\* The attempt on candidate i, as the upstream answers it, throws.
Fails(i) ==
    LET o == upstream[i]
    IN  \/ o \in {Refused, Silent}
        \/ /\ o.net = "response"
           /\ \/ ~Ok(o)
              \/ /\ Ok(o)
                 /\ \/ o.body.k \in {"reset", "invalid"}
                    \/ /\ o.body.k \in {"json", "text"}
                       /\ Branch(i, o.body).end = "throw"

\* The value JSON carries for v: a number that is not finite, which JSON
\* cannot write, is carried as null, at any depth.
RECURSIVE Carried(_)
Carried(v) ==
    CASE v.t = "array" -> Arr([i \in 1..Len(v.a) |-> Carried(v.a[i])])
      [] v.t = "object" -> Obj([k \in DOMAIN v.o |-> Carried(v.o[k])])
      [] v.t \in {"null", "boolean", "string", "number"} -> v
      [] OTHER -> Null

\* The success envelope's data for the locals: each of announcer and program
\* that is set, else the placeholder, and the count, as JSON carries them.
DataOf(loc, prog, uni, st) ==
    [locutor |-> Carried(IF Truthy(loc) THEN loc ELSE Placeholder),
     programa |-> Carried(IF Truthy(prog) THEN prog ELSE Placeholder),
     unicos |-> Carried(uni),
     status |-> st]

\* C1: the step in which an attempt sets any of announcer, program and
\* listener count to a non-null value ends the loop: GET returns in that
\* step, no further candidate is requested, and the response is the success
\* envelope built from the values of that attempt.
C1_StopsAtFirstUsable ==
    [][(pc = "body" /\ (locutor' # Null \/ programa' # Null \/ unicos' # Null))
        => /\ pc' = "idle"
           /\ requests' = requests
           /\ idx' = idx
           /\ Len(responses') = Len(responses) + 1
           /\ Last(responses').status = 200
           /\ Last(responses').body.success
           /\ Last(responses').body.data = DataOf(locutor', programa', unicos', status')]_vars

\* C2: a failed attempt on a candidate that is not the last is recorded as
\* lastError and is followed, in the same step, by the request to the next
\* candidate; GET does not return.  (A step that leaves preflight alone is a
\* step of GET.)
C2_FailureContinues ==
    [][(AttemptFails /\ idx < Len(urls) /\ preflight' = preflight)
        => /\ lastError' # Null
           /\ lastError'.at = idx
           /\ pc' = "fetch"
           /\ idx' = idx + 1
           /\ requests' = Append(requests, idx + 1)
           /\ responses' = responses]_vars

C2_Witness ==
    /\ pc = "fetch"
    /\ idx = 4
    /\ lastError # Null
    /\ lastError.at = 3
    /\ lastError.name = "SyntaxError"
    /\ upstream[1] = Silent
    /\ upstream[2] = Refused

\* Response k was made against the upstream as it is now.
Current(k) == k > changed

\* C3: when all five candidates fail, GET returns the failure envelope with
\* status 500 whose error text embeds the description of the last recorded
\* failure, that of the fifth candidate, and no success envelope.
C3_ExhaustionEnvelope ==
    (Returned /\ \A i \in 1..Len(urls) : Fails(i))
        => /\ \A k \in 1..Len(responses) :
                Current(k)
                    => /\ responses[k].status = 500
                       /\ DOMAIN responses[k].body = {"success", "error"}
                       /\ ~responses[k].body.success
           /\ lastError # Null
           /\ lastError.at = Len(urls)
           /\ Last(responses).body.error.last = ErrorString(lastError)
           /\ Last(responses).body.error.last.name # "null"

\* A success envelope: status 200, success, a timestamp and the four data
\* fields, each with a value JSON can carry.
IsSuccessEnvelope(r) ==
    /\ r.status = 200
    /\ DOMAIN r.body = {"success", "timestamp", "data"}
    /\ r.body.success
    /\ DOMAIN r.body.data = {"locutor", "programa", "unicos", "status"}
    /\ r.body.data.status \in {"online", "offline"}
    /\ r.body.data.locutor = Carried(r.body.data.locutor)
    /\ r.body.data.programa = Carried(r.body.data.programa)
    /\ r.body.data.unicos.t \in {"number", "null"}

\* A failure envelope: status 500, no success, an error text.
IsFailureEnvelope(r) ==
    /\ r.status = 500
    /\ DOMAIN r.body = {"success", "error"}
    /\ ~r.body.success
    /\ r.body.error.text # ""

\* C5: every invocation returns exactly one response: one that has not
\* returned can go on, and one that has ended returned once; each response is
\* either the success envelope or the failure envelope; and a success is
\* never partial: it is the result of an attempt that succeeded, on the
\* candidate GET stopped at, never what failed attempts left behind.
C5_OneEnvelopePerInvocation ==
    /\ pc = "idle" \/ ENABLED Resume
    /\ Len(responses) = IF pc = "idle" THEN now ELSE now - 1
    /\ \A k \in 1..Len(responses) :
          \/ IsSuccessEnvelope(responses[k])
          \/ IsFailureEnvelope(responses[k])
    /\ Succeeded => Stopped

\* A response without the time it was built at.
Timeless(r) ==
    IF r.status = 200
    THEN [status |-> r.status, success |-> r.body.success, data |-> r.body.data]
    ELSE [status |-> r.status, success |-> r.body.success, error |-> r.body.error]

\* What an invocation returns when every endpoint refuses the connection
\* and no invocation has run before it.
DownResponse ==
    [status |-> 500,
     success |-> FALSE,
     error |-> [text |-> "Nenhum endpoint do Shoutcast respondeu. Ultimo erro: ",
                last |-> [name |-> "TypeError",
                          message |-> [text |-> "fetch failed", args |-> <<>>],
                          code |-> 0]]]

\* C10: the responses of any two invocations against the same upstream state
\* agree in everything but the timestamp, and no invocation is influenced by
\* the ones before it: once the upstream has gone down, whatever the
\* invocations before found and left in their locals, an invocation returns
\* what a first invocation returns on that upstream.
C10_Idempotent ==
    /\ \A i, j \in 1..Len(responses) :
          Current(i) = Current(j) => Timeless(responses[i]) = Timeless(responses[j])
    /\ \A k \in 1..Len(responses) :
          (changed # 0 /\ Current(k)) => Timeless(responses[k]) = DownResponse

\* The second invocation ran after one that succeeded and left its locals
\* set, on an upstream that had gone down in between.
C10_Witness ==
    /\ Len(responses) = 2
    /\ changed = 1
    /\ responses[1].status = 200
    /\ responses[1].body.data.locutor = Str(DjMike)
    /\ responses[1].body.data.unicos = Whole(MaxListeners)
    /\ locutor = Null
    /\ unicos = Null
    /\ responses[2].status = 500
    /\ upstream = Down

\* The explicit stream-status flag of a payload of candidate i: stream-level
\* before top-level for /statistics, top-level for /stats, none elsewhere.
FlagOf(i, body) ==
    IF body.k # "json" \/ IsNullish(body.v) THEN Undef
    ELSE IF EndsWithStatistics(urls[i])
         THEN LET streams == Get(body.v, "streams")
                  stream == IF streams.t = "array" /\ Len(streams.a) # 0
                            THEN streams.a[1] ELSE body.v
              IN  Coalesce(GetOpt(stream, "streamstatus"), Get(body.v, "streamstatus"))
         ELSE IF IncludesStats(urls[i]) THEN Get(body.v, "streamstatus")
              ELSE Undef

\* C4: a success response is never built from a payload that carries none of
\* announcer, program and listener count, such as the empty JSON object.
C4_EmptyPayloadNeverAnswers ==
    Stopped => upstream[idx].body # Json(Obj(<<>>))

\* C6: in a success response built from a payload without an explicit
\* stream-status flag, status is "online" exactly when the resolved listener
\* count is greater than zero.
C6_OnlineIffListeners ==
    (Stopped /\ IsNullish(FlagOf(idx, upstream[idx].body)))
        => (Last(responses).body.data.status = "online") = GreaterThanZero(unicos)

\* C7: in a success response built from a /statistics or /stats payload with
\* an explicit stream-status flag, status is "online" exactly when the flag
\* equals 1.
C7_OnlineIffFlagIsOne ==
    (Stopped /\ ~IsNullish(FlagOf(idx, upstream[idx].body)))
        => (Last(responses).body.data.status = "online")
               = (Number(FlagOf(idx, upstream[idx].body)) = Whole(1))

\* C8: in every success response, data.unicos is a non-negative integer.
C8_UnicosNonNegativeInteger ==
    \A k \in 1..Len(responses) :
        responses[k].status = 200
            => /\ responses[k].body.data.unicos.t = "number"
               /\ responses[k].body.data.unicos.m >= 0
               /\ responses[k].body.data.unicos.e >= 0

\* C9: an invocation that has not returned can always take a step: no
\* attempt waits on the upstream without a timer that will end it.
C9_NeverStuck == pc = "idle" \/ ENABLED Resume

\* C11: every OPTIONS invocation returns status 200 with no body and the
\* allowed methods and headers, whatever the upstream did and wherever a GET
\* is suspended, and it requests no endpoint: the request log, the timers and
\* what is known of the upstream are as before.
C11_PreflightAnswersAlone ==
    [][preflight' # preflight
        => /\ preflight'.status = 200
           /\ preflight'.body = Null
           /\ preflight'.headers.AccessControlAllowMethods = "GET, OPTIONS"
           /\ preflight'.headers.AccessControlAllowHeaders = "Content-Type"
           /\ preflight'.headers.AccessControlAllowOrigin = "*"
           /\ requests' = requests
           /\ timers' = timers
           /\ upstream' = upstream
           /\ pc' = pc
           /\ responses' = responses]_vars

C11_Witness ==
    /\ preflight = OptionsResponse
    /\ pc = "body"
    /\ upstream[1] = Refused
    /\ upstream[2] = Response(200, Stall)
    /\ requests = <<1, 2>>

\* C12: within one invocation the candidates are requested one at a time in
\* the order of the list, each at most once: the request log is always
\* <<1, ..., k>> with k the candidate of the current iteration, a request is
\* issued only by the step that ends the attempt on candidate k - 1, and only
\* the timer of the current candidate can be armed.
C12_SequentialInOrder ==
    [][/\ requests' = [k \in 1..Len(requests') |-> k]
       /\ Len(requests') <= Len(urls)
       /\ pc' # "idle" => idx' = Len(requests')
       /\ timers' \subseteq {idx'}
       /\ (requests' # requests /\ pc # "idle")
            => /\ pc \in {"fetch", "body"}
               /\ idx = Len(requests)
               /\ requests' = Append(requests, idx + 1)
               /\ pc' = "fetch"]_vars

C12_Witness ==
    /\ requests = <<1, 2, 3, 4, 5>>
    /\ pc = "fetch"
    /\ timers = {5}
    /\ upstream[4] = Response(200, Reset)

\* C13: no timer outlives the call of fetchWithTimeout that armed it: while
\* fetch is awaited exactly the timer of the current candidate is armed, and
\* none is armed while a body is read or after GET has returned.
C13_TimerReleased ==
    /\ Cardinality(timers) <= 1
    /\ pc = "fetch" => timers = {idx}
    /\ pc \in {"body", "idle"} => timers = {}

C13_Witness ==
    /\ Returned
    /\ timers = {}
    /\ requests = <<1, 2, 3>>
    /\ upstream[1] = Silent
    /\ upstream[2] = Refused
    /\ upstream[3].net = "response"
    /\ upstream[3].code = 200

\* C14: results are never merged across candidates: while the loop runs, after
\* any number of failed attempts and of attempts that read nothing usable,
\* the four result variables hold their initial values, and every success
\* comes from breaking out of the loop, with all four, and the envelope built
\* from them, being what the branch of that one candidate computed from its
\* body.
C14_NoMerging ==
    /\ pc # "idle"
         => <<locutor, programa, unicos, status>> = <<Null, Null, Null, "offline">>
    /\ Succeeded
         => /\ Stopped
            /\ idx = Len(requests)
            /\ LET r == Branch(idx, upstream[idx].body)
               IN  /\ <<locutor, programa, unicos, status>>
                        = <<r.locutor, r.programa, r.unicos, r.status>>
                   /\ Last(responses).body.data
                        = DataOf(r.locutor, r.programa, r.unicos, r.status)

\* C15: when GET succeeds on a /stats candidate (Shape B), the announcer of
\* the envelope is the payload's dj, in the form JSON carries it, when it has
\* one and the placeholder otherwise; the song title is never the announcer.
C15_AnnouncerOnlyFromDj ==
    (Stopped /\ IncludesStats(urls[idx]))
        => LET j == upstream[idx].body.v
           IN  Last(responses).body.data.locutor
                 = Carried(IF Truthy(Get(j, "dj")) THEN Get(j, "dj") ELSE Placeholder)

\* The record the statistics branch reads the stream-level fields from: the
\* first of a non-empty stream list, the payload itself otherwise.
StreamOf(j) ==
    IF Get(j, "streams").t = "array" /\ Len(Get(j, "streams").a) > 0
    THEN Get(j, "streams").a[1]
    ELSE j

\* The first value of the list that is neither null nor undefined, else 0.
FirstPresent(vals) ==
    IF \E i \in 1..Len(vals) : ~IsNullish(vals[i])
    THEN vals[CHOOSE i \in 1..Len(vals) :
                  /\ ~IsNullish(vals[i])
                  /\ \A k \in 1..(i - 1) : IsNullish(vals[k])]
    ELSE Whole(0)

\* C16: when GET succeeds on /statistics (Shape A), the listener count is the
\* first present value among stream-level uniquelisteners, top-level
\* uniquelisteners, stream-level currentlisteners and top-level
\* currentlisteners, and 0 when none is present; a present 0 is used.
C16_FirstPresentCount ==
    (Stopped /\ EndsWithStatistics(urls[idx]))
        => LET j == upstream[idx].body.v
               s == StreamOf(j)
               v == FirstPresent(<<Get(s, "uniquelisteners"), Get(j, "uniquelisteners"),
                                   Get(s, "currentlisteners"), Get(j, "currentlisteners")>>)
           IN  /\ unicos = Number(v)
               /\ v.t = "number" => Last(responses).body.data.unicos = v

C16_Witness ==
    /\ Stopped
    /\ idx = 1
    /\ upstream[1].body.k = "json"
    /\ LET j == upstream[1].body.v
       IN  /\ StreamOf(j) # j
           /\ Get(StreamOf(j), "uniquelisteners") = Null
           /\ Get(j, "uniquelisteners") = Whole(0)
           /\ Get(StreamOf(j), "currentlisteners") = Whole(MaxListeners)
           /\ Get(j, "currentlisteners") = Whole(MaxListeners)
    /\ Last(responses).body.data.unicos = Whole(0)

\* C17: when GET succeeds on /statistics with a non-empty stream list, the
\* announcer of the envelope is the first stream record's dj when that is
\* set, else the top-level dj when that is set, else the placeholder, in the
\* form JSON carries it.
C17_AnnouncerStreamThenTop ==
    (Stopped /\ EndsWithStatistics(urls[idx]) /\ StreamOf(upstream[idx].body.v) # upstream[idx].body.v)
        => LET j == upstream[idx].body.v
               s == StreamOf(j)
           IN  Last(responses).body.data.locutor
                 = Carried(IF Truthy(Get(s, "dj")) THEN Get(s, "dj")
                           ELSE IF Truthy(Get(j, "dj")) THEN Get(j, "dj")
                           ELSE Placeholder)

C17_Witness ==
    /\ Stopped
    /\ idx = 1
    /\ upstream[1].body.k = "json"
    /\ LET j == upstream[1].body.v
       IN  /\ StreamOf(j) # j
           /\ Get(StreamOf(j), "dj") = Null
           /\ Get(StreamOf(j), "uniquelisteners") = Whole(0)
           /\ Get(j, "dj") = Str(DjMike)
    /\ Last(responses).body.data.locutor = Str(DjMike)

\* The comma-separated fields of a 7.html body, markup and outer blanks removed.
FieldsOf(txt) == Split(Trim(StripTags(txt)))

\* C18: when GET succeeds on /7.html (a body of seven or more fields), the
\* listener count is the number in field 0, the program is fields 6 onward
\* rejoined with commas and stripped of surrounding quotes (the placeholder
\* when that is empty), the announcer is the placeholder, and the status is
\* online exactly when the listener count is greater than zero.
C18_SevenFieldsResult ==
    (Stopped /\ EndsWith7Html(urls[idx]))
        => LET parts == FieldsOf(upstream[idx].body.txt)
               field0 == StringToNumber(parts[1])
               title == TrimQuotes(Join(SubSeq(parts, 7, Len(parts))))
               data == Last(responses).body.data
           IN  /\ Len(parts) >= 7
               /\ field0.t = "number" => data.unicos = field0
               /\ data.programa = IF title = <<>> THEN Placeholder ELSE Str(title)
               /\ data.locutor = Placeholder
               /\ data.status = "online" <=> GreaterThanZero(data.unicos)

\* C19: the step of GET that reads a /7.html body of fewer than seven fields
\* assigns none of the four result variables, records no error, and requests
\* the next candidate, /status-json.xsl; GET does not return.
C19_ShortBodyFallsThrough ==
    [][(/\ pc = "body"
        /\ EndsWith7Html(urls[idx])
        /\ upstream[idx].body.k = "text"
        /\ Len(FieldsOf(upstream[idx].body.txt)) < 7
        /\ preflight' = preflight)
        => /\ <<locutor', programa', unicos', status'>> = <<locutor, programa, unicos, status>>
           /\ lastError' = lastError
           /\ pc' = "fetch"
           /\ idx' = idx + 1
           /\ EndsWithStatusJson(urls[idx'])
           /\ requests' = Append(requests, idx')
           /\ responses' = responses]_vars

C19_Witness ==
    /\ pc = "fetch"
    /\ EndsWithStatusJson(urls[idx])
    /\ upstream[4] = Response(200, Text(<<"1", ",", "2", ",", "3">>))
    /\ upstream[3] = Refused
    /\ lastError # Null
    /\ lastError.at = 3
    /\ unicos = Null

\* The text s holds the word w.
Occurs(w, s) == \E i \in 1..(Len(s) - Len(w) + 1) : SubSeq(s, i, i + Len(w) - 1) = w

NullWord == <<"n", "u", "l", "l">>

\* The description d of an error, as the error text embeds it, holds the
\* word null: it is String(null), or its message quotes the word.
EmbedsNull(d) ==
    \/ d.name = "null"
    \/ d.message.text = "Cannot read properties of null"
    \/ \E k \in 1..Len(d.message.args) : Occurs(NullWord, d.message.args[k])

\* C20 as stated: whenever GET answers with the exhaustion error, the attempt
\* on the last candidate is the one that threw last, lastError is that
\* failure, and the error text never embeds "null".
C20_NeverEmbedsNull ==
    (Returned /\ Last(responses).status = 500)
        => /\ idx = Len(urls)
           /\ Fails(Len(urls))
           /\ lastError # Null
           /\ lastError.at = Len(urls)
           /\ Last(responses).body.error.last = ErrorString(lastError)
           /\ ~EmbedsNull(Last(responses).body.error.last)

\* C20: whenever GET answers with the exhaustion error, the attempt on the
\* last candidate is the one that threw last: lastError is that failure, not
\* null, and the error text embeds its description, which is never the
\* String(null) of a missing error; the description may itself quote the word
\* null from the body of the last candidate.
C20_ExhaustionNamesLastFailure ==
    (Returned /\ Last(responses).status = 500)
        => /\ idx = Len(urls)
           /\ Fails(Len(urls))
           /\ lastError # Null
           /\ lastError.at = Len(urls)
           /\ Last(responses).body.error.last = ErrorString(lastError)
           /\ Last(responses).body.error.last.name # "null"

C20_Witness ==
    /\ Returned
    /\ Last(responses).status = 500
    /\ upstream[4] = Response(200, Text(<<"1", ",", "2", ",", "3">>))
    /\ upstream[5] = Response(200, Invalid(NullPage))
    /\ lastError.name = "SyntaxError"
    /\ lastError.at = 5
    /\ Last(responses).body.error.last.message
         = Message("Unexpected token '%', \"%\" is not valid JSON", <<<<"<">>, NullPage>>)

====
